---- MODULE Spec2Model ----
(***************************************************************************)
(* State machine of the App component (src/unnamed/part_000): the record   *)
(* store, the settings, the month selection, the three memoized derived    *)
(* lists, the upload handler with its awaits, and the insight effect.      *)
(*                                                                         *)
(* Strings that the code takes apart (datum, the month keys) are sequences *)
(* of one-character strings, so that split, padStart, length, template     *)
(* concatenation and the default sort order are computed, not assumed.     *)
(***************************************************************************)
EXTENDS Integers, Sequences, FiniteSets, Bags, TLC

VARIABLES
  settings,          \* useState<AppSettings>                       (line 15)
  aiInsights,        \* useState<string>: <<>> is ''                (line 23)
  isAiLoading,       \* useState(false)                             (line 24)
  isParsingPdf,      \* useState(false)                             (line 25)
  uploadedRecords,   \* useState<ProductionRecord[]>([])            (line 26)
  uploadStats,       \* useState<{files,count}|null>: <<>> is null  (line 27)
  selectedMonths,    \* useState<string[]>([]), read by .includes   (line 30)
  allProcessedData,  \* memoized value of the useMemo at line 33
  availableMonths,   \* memoized value of the useMemo at line 40
  filteredData,      \* memoized value of the useMemo at line 56
  uploads,           \* bag of handleFileUpload invocations suspended at the await of line 88
  calls,             \* bag of fetchInsights invocations suspended at the await of line 74
  timers,            \* pending setTimeout callbacks of line 95
  alerts,            \* number of alert() dialogs shown (line 99)
  nStarted,          \* number of handleFileUpload invocations so far
  nIssued            \* number of getGeminiInsights calls so far

vars == <<settings, aiInsights, isAiLoading, isParsingPdf, uploadedRecords,
          uploadStats, selectedMonths, allProcessedData, availableMonths,
          filteredData, uploads, calls, timers, alerts, nStarted, nIssued>>

----------------------------------------------------------------------------
(* Bounds of the model *)

\* handleFileUpload invocations in one session
MaxBatches == 2
\* getGeminiInsights calls in one session
MaxCalls == 2

----------------------------------------------------------------------------
(* Sequences *)

IsPrefix(s, t) == Len(s) <= Len(t) /\ SubSeq(t, 1, Len(s)) = s

Range(s) == {s[i] : i \in 1..Len(s)}

RECURSIVE Flatten(_)
Flatten(ss) == IF ss = <<>> THEN <<>> ELSE Head(ss) \o Flatten(Tail(ss))

Reverse(s) == [i \in 1..Len(s) |-> s[Len(s) + 1 - i]]

----------------------------------------------------------------------------
(* Strings as character sequences *)

\* UTF-16 code unit of the characters that occur in the model's strings
CharCode(c) ==
  CASE c = "-" -> 45 [] c = "." -> 46
    [] c = "0" -> 48 [] c = "1" -> 49 [] c = "2" -> 50 [] c = "3" -> 51
    [] c = "4" -> 52 [] c = "5" -> 53 [] c = "6" -> 54 [] c = "7" -> 55
    [] c = "8" -> 56 [] c = "9" -> 57
    [] c = "a" -> 97 [] c = "b" -> 98 [] c = "d" -> 100 [] c = "e" -> 101
    [] c = "t" -> 116

\* a < b in the order of Array.prototype.sort() without a comparator:
\* code unit by code unit, a proper prefix first
RECURSIVE StrLess(_, _)
StrLess(a, b) ==
  IF b = <<>> THEN FALSE
  ELSE IF a = <<>> THEN TRUE
  ELSE IF Head(a) # Head(b) THEN CharCode(Head(a)) < CharCode(Head(b))
  ELSE StrLess(Tail(a), Tail(b))

\* String.prototype.split(sep) for a one-character separator
RECURSIVE SplitFrom(_, _, _)
SplitFrom(s, sep, cur) ==
  IF s = <<>> THEN <<cur>>
  ELSE IF Head(s) = sep THEN <<cur>> \o SplitFrom(Tail(s), sep, <<>>)
  ELSE SplitFrom(Tail(s), sep, Append(cur, Head(s)))

Split(s, sep) == SplitFrom(s, sep, <<>>)

\* String.prototype.padStart(n, c) for a one-character pad string
RECURSIVE PadStart(_, _, _)
PadStart(s, n, c) == IF Len(s) >= n THEN s ELSE PadStart(<<c>> \o s, n, c)

\* the characters of the date strings that occur in the records
Chars(str) ==
  CASE str = "05.03.24"   -> <<"0","5",".","0","3",".","2","4">>
    [] str = "05.03.2024" -> <<"0","5",".","0","3",".","2","0","2","4">>
    [] str = "bad-date"   -> <<"b","a","d","-","d","a","t","e">>
    [] str = "1.4.24"     -> <<"1",".","4",".","2","4">>
    [] str = "01.13.2023" -> <<"0","1",".","1","3",".","2","0","2","3">>

----------------------------------------------------------------------------
(* Records, settings, documents *)

\* AppSettings as first constructed (lines 15-20); the temperature buckets
\* and their tolerance play no part in what is modelled here
DefaultSettings == [roundingMode |-> "VARIANT_A", tombakThreshold |-> 85]

\* the values setSettings is called with by the Sidebar, each time one other
\* than the current
SettingsChoices ==
  { DefaultSettings,
    [roundingMode |-> "VARIANT_B", tombakThreshold |-> 95] }

\* Raw records as the extraction service returns them. legierung and
\* gewichtKg stand for the number their text parses to, -1 for a text that
\* does not parse.
Rec1 == [id |-> "r1", datum |-> "05.03.24",   legierung |-> 90, gewichtKg |-> 1236]
Rec2 == [id |-> "r2", datum |-> "05.03.2024", legierung |-> 70, gewichtKg |-> 1231]
Rec3 == [id |-> "r3", datum |-> "bad-date",   legierung |-> -1, gewichtKg |-> 500]
Rec4 == [id |-> "r4", datum |-> "1.4.24",     legierung |-> 90, gewichtKg |-> 2000]
Rec5 == [id |-> "r5", datum |-> "01.13.2023", legierung |-> 99, gewichtKg |-> 10]

\* parseProductionDataWithAi(file, settings): what the await of line 88
\* yields for each document; ok = FALSE is a rejected promise
Extract(doc) ==
  CASE doc = "docA" -> [ok |-> TRUE,  records |-> <<Rec1, Rec3>>]
    [] doc = "docB" -> [ok |-> TRUE,  records |-> <<Rec2>>]
    [] doc = "docC" -> [ok |-> TRUE,  records |-> <<Rec4, Rec5>>]
    [] doc = "docX" -> [ok |-> FALSE, records |-> <<>>]

\* the FileLists handed to handleFileUpload
FileLists ==
  { <<"docA", "docX", "docB">>,
    <<"docA", "docB">>,
    <<"docC">>,
    <<>> }

\* the month keys setSelectedMonths is called with (sets of them, each time
\* one other than the current)
MonthChoices == { <<"2","0","2","4","-","0","3">> }

\* processRawData([rec], settings)[0]: the raw record with its computed
\* fields. tonnesRounded is in hundredths of a tonne: half-up under
\* VARIANT_A, ceiling under VARIANT_B. The Tombak band below the threshold
\* has no stated width and is not told apart from Messing.
processRawData(rec, st) ==
  [ id            |-> rec.id,
    datum         |-> rec.datum,
    legierung     |-> rec.legierung,
    gewichtKg     |-> rec.gewichtKg,
    tonnesRounded |-> IF rec.gewichtKg < 0 THEN -1
                      ELSE IF st.roundingMode = "VARIANT_A"
                           THEN (rec.gewichtKg + 5) \div 10
                           ELSE (rec.gewichtKg + 9) \div 10,
    material      |-> IF rec.legierung < 0 THEN "Unklar"
                      ELSE IF rec.legierung >= st.tombakThreshold THEN "Cu"
                      ELSE "Messing" ]

\* getGeminiInsights(data): the text the service returns for a list of
\* records, identified by the list it was computed for
getGeminiInsights(data) == <<data>>

----------------------------------------------------------------------------
(* The derived lists (lines 33-68) *)

\* lines 34-36: uploadedRecords.map(rec => processRawData([rec], settings)[0])
MapProcess(store, st) == [i \in 1..Len(store) |-> processRawData(store[i], st)]

\* the memo of lines 33-37 with settings left out of its dependency list
MemoAllProcessedData_NoSettingsDep(old, settingsChanged, storeChanged, st, store) ==
  IF storeChanged
  THEN [value |-> MapProcess(store, st), fresh |-> TRUE]
  ELSE [value |-> old, fresh |-> FALSE]

\* useMemo(..., [settings, uploadedRecords]) (lines 33-37): recomputed, as a
\* new array, when a dependency is a new value; the memoized array otherwise
MemoAllProcessedData(old, settingsChanged, storeChanged, st, store) ==
  IF settingsChanged \/ storeChanged
  THEN [value |-> MapProcess(store, st), fresh |-> TRUE]
  ELSE [value |-> old, fresh |-> FALSE]

\* lines 45-49 with the century prefix applied to every year
AvailableKey_AlwaysPrefix(datum) ==
  LET parts == Split(Chars(datum), ".") IN
  IF Len(parts) = 3
  THEN LET month == PadStart(parts[2], 2, "0")
           year  == <<"2","0">> \o parts[3]
       IN <<year \o <<"-">> \o month>>
  ELSE <<>>

\* lines 45-49: the key added to the Set, as a list of zero or one key
AvailableKey(datum) ==
  LET parts == Split(Chars(datum), ".") IN
  IF Len(parts) = 3
  THEN LET month == PadStart(parts[2], 2, "0")
           year  == IF Len(parts[3]) = 2 THEN <<"2","0">> \o parts[3] ELSE parts[3]
       IN <<year \o <<"-">> \o month>>
  ELSE <<>>

\* Set.prototype.add on a Set kept in insertion order
SetAdd(months, k) == IF k \in Range(months) THEN months ELSE Append(months, k)

\* lines 41-51: the Set after the forEach
RECURSIVE CollectMonths(_, _)
CollectMonths(data, months) ==
  IF data = <<>> THEN months
  ELSE LET k == AvailableKey(Head(data).datum) IN
       CollectMonths(Tail(data), IF k = <<>> THEN months ELSE SetAdd(months, k[1]))

\* Array.prototype.sort() without a comparator, as an insertion sort
RECURSIVE SortInsert(_, _)
SortInsert(sorted, k) ==
  IF sorted = <<>> THEN <<k>>
  ELSE IF StrLess(k, Head(sorted)) THEN <<k>> \o sorted
  ELSE <<Head(sorted)>> \o SortInsert(Tail(sorted), k)

RECURSIVE Sort(_)
Sort(s) == IF s = <<>> THEN <<>> ELSE SortInsert(Sort(Tail(s)), Head(s))

\* line 52 without the reverse()
ComputeAvailableMonths_NoReverse(data) == Sort(CollectMonths(data, <<>>))

\* lines 40-53: Array.from(months).sort().reverse()
ComputeAvailableMonths(data) == Reverse(Sort(CollectMonths(data, <<>>)))

\* lines 59-66 with line 66 returning true
FilterKeeps_KeepsMalformed(rec, sel) ==
  LET parts == Split(Chars(rec.datum), ".") IN
  IF Len(parts) = 3
  THEN LET month == PadStart(parts[2], 2, "0")
           year  == IF Len(parts[3]) = 2 THEN <<"2","0">> \o parts[3] ELSE parts[3]
           key   == year \o <<"-">> \o month
       IN key \in sel
  ELSE TRUE

\* lines 59-66 without the padStart of line 61
FilterKeeps_NoPad(rec, sel) ==
  LET parts == Split(Chars(rec.datum), ".") IN
  IF Len(parts) = 3
  THEN LET month == parts[2]
           year  == IF Len(parts[3]) = 2 THEN <<"2","0">> \o parts[3] ELSE parts[3]
           key   == year \o <<"-">> \o month
       IN key \in sel
  ELSE FALSE

\* lines 59-66: the predicate handed to filter
FilterKeeps(rec, sel) ==
  LET parts == Split(Chars(rec.datum), ".") IN
  IF Len(parts) = 3
  THEN LET month == PadStart(parts[2], 2, "0")
           year  == IF Len(parts[3]) = 2 THEN <<"2","0">> \o parts[3] ELSE parts[3]
           key   == year \o <<"-">> \o month
       IN key \in sel
  ELSE FALSE

\* lines 57-67 without the early return of line 57
ComputeFilteredData_NoEarlyReturn(data, sel) ==
  SelectSeq(data, LAMBDA rec : FilterKeeps(rec, sel))

\* lines 57-67
ComputeFilteredData(data, sel) ==
  IF sel = {} THEN data ELSE SelectSeq(data, LAMBDA rec : FilterKeeps(rec, sel))

\* lines 40-53 reading the months from the filtered records instead of
\* allProcessedData
MemoAvailableMonths_FromFiltered(old, dataFresh, data) ==
  IF dataFresh
  THEN ComputeAvailableMonths(ComputeFilteredData(data, selectedMonths'))
  ELSE old

\* useMemo(..., [allProcessedData]) (lines 40-53)
MemoAvailableMonths(old, dataFresh, data) ==
  IF dataFresh THEN ComputeAvailableMonths(data) ELSE old

\* useMemo(..., [allProcessedData, selectedMonths]) (lines 56-68)
MemoFilteredData(old, dataFresh, selectionChanged, data, sel) ==
  IF dataFresh \/ selectionChanged
  THEN [value |-> ComputeFilteredData(data, sel), fresh |-> TRUE]
  ELSE [value |-> old, fresh |-> FALSE]

----------------------------------------------------------------------------
(* The component *)

\* a suspended invocation joins, or leaves, the bag of those in flight
Suspend(bag, x) == bag (+) SetToBag({x})

Resume(bag, x) == bag (-) SetToBag({x})

Init ==
  /\ settings = DefaultSettings
  /\ aiInsights = <<>>
  /\ isAiLoading = FALSE
  /\ isParsingPdf = FALSE
  /\ uploadedRecords = <<>>
  /\ uploadStats = <<>>
  /\ selectedMonths = {}
  /\ allProcessedData = <<>>
  /\ availableMonths = <<>>
  /\ filteredData = <<>>
  /\ uploads = EmptyBag
  /\ calls = EmptyBag
  /\ timers = 0
  /\ alerts = 0
  /\ nStarted = 0
  /\ nIssued = 0

\* lines 70-80: the effect runs when filteredData is a new array; a
\* non-empty list sets the loading flag and suspends at the await of line 74
InsightEffect(fresh, data) ==
  IF fresh /\ Len(data) > 0
  THEN /\ nIssued < MaxCalls
       /\ nIssued' = nIssued + 1
       /\ isAiLoading' = TRUE
       /\ calls' = Suspend(calls, data)
  ELSE UNCHANGED <<isAiLoading, calls, nIssued>>

\* The render that follows a change of settings, uploadedRecords or
\* selectedMonths: the three memos in order, then the effect.
Rerender(settingsChanged, storeChanged, selectionChanged) ==
  LET data == MemoAllProcessedData(allProcessedData, settingsChanged, storeChanged,
                                   settings', uploadedRecords')
      filt == MemoFilteredData(filteredData, data.fresh, selectionChanged,
                               data.value, selectedMonths')
  IN /\ allProcessedData' = data.value
     /\ availableMonths' = MemoAvailableMonths(availableMonths, data.fresh, data.value)
     /\ filteredData' = filt.value
     /\ InsightEffect(filt.fresh, filt.value)

\* setSettings, handed to the Sidebar (line 114)
SetSettings(st) ==
  /\ settings' = st
  /\ UNCHANGED <<uploadedRecords, selectedMonths>>
  /\ Rerender(TRUE, FALSE, FALSE)
  /\ UNCHANGED <<aiInsights, isParsingPdf, uploadStats, uploads, timers, alerts,
                 nStarted>>

\* setSelectedMonths, handed to the MonthFilter (line 202)
SetSelectedMonths(sel) ==
  /\ selectedMonths' = sel
  /\ UNCHANGED <<settings, uploadedRecords>>
  /\ Rerender(FALSE, FALSE, TRUE)
  /\ UNCHANGED <<aiInsights, isParsingPdf, uploadStats, uploads, timers, alerts,
                 nStarted>>

\* line 89: allExtractedRecords = [...allExtractedRecords, ...records]
Accumulate(allExtractedRecords, records) == allExtractedRecords \o records

\* line 92 as setUploadedRecords(allExtractedRecords): the batch replaces the store
AppendStore_Replace(prev, allExtractedRecords) == allExtractedRecords

\* line 92: setUploadedRecords(prev => [...prev, ...allExtractedRecords])
AppendStore(prev, allExtractedRecords) == prev \o allExtractedRecords

\* lines 92-95 and 101 with line 93 reporting the size of the whole store
\* as count
FinishUpload_CountsStore(files, allExtractedRecords) ==
  /\ uploadedRecords' = AppendStore(uploadedRecords, allExtractedRecords)
  /\ uploadStats' = <<Len(files), Len(uploadedRecords')>>
  /\ timers' = timers + 1
  /\ isParsingPdf' = FALSE
  /\ UNCHANGED <<settings, selectedMonths>>
  /\ Rerender(FALSE, TRUE, FALSE)
  /\ UNCHANGED <<aiInsights, alerts>>

\* lines 92-95 and 101: the end of the try block and the finally block
FinishUpload(files, allExtractedRecords) ==
  /\ uploadedRecords' = AppendStore(uploadedRecords, allExtractedRecords)
  /\ uploadStats' = <<Len(files), Len(allExtractedRecords)>>
  /\ timers' = timers + 1
  /\ isParsingPdf' = FALSE
  /\ UNCHANGED <<settings, selectedMonths>>
  /\ Rerender(FALSE, TRUE, FALSE)
  /\ UNCHANGED <<aiInsights, alerts>>

\* lines 83-88 with the loop replaced by one extraction call per file, all
\* started at once
StartUpload_AllAtOnce(files) ==
  /\ nStarted < MaxBatches
  /\ nStarted' = nStarted + 1
  /\ IF files = <<>>
     THEN /\ FinishUpload(files, <<>>)
          /\ UNCHANGED uploads
     ELSE /\ isParsingPdf' = TRUE
          /\ uploads' = uploads (+) SetToBag({[files |-> files, i |-> j,
                                               allExtractedRecords |-> <<>>] :
                                              j \in 1..Len(files)})
          /\ UNCHANGED <<settings, aiInsights, isAiLoading, uploadedRecords,
                         uploadStats, selectedMonths, allProcessedData,
                         availableMonths, filteredData, calls, timers, alerts,
                         nIssued>>

\* handleFileUpload up to its first await (lines 83-88); an empty FileList
\* runs to the end without suspending
StartUpload(files) ==
  /\ nStarted < MaxBatches
  /\ nStarted' = nStarted + 1
  /\ IF files = <<>>
     THEN /\ FinishUpload(files, <<>>)
          /\ UNCHANGED uploads
     ELSE /\ isParsingPdf' = TRUE
          /\ uploads' = Suspend(uploads, [files |-> files, i |-> 1,
                                          allExtractedRecords |-> <<>>])
          /\ UNCHANGED <<settings, aiInsights, isAiLoading, uploadedRecords,
                         uploadStats, selectedMonths, allProcessedData,
                         availableMonths, filteredData, calls, timers, alerts,
                         nIssued>>

\* lines 87-90 with the store update of line 92 moved into the loop: every
\* document's records are appended as soon as they arrive
ExtractNext_AppendsPerDocument(b) ==
  LET r == Extract(b.files[b.i])
  IN /\ r.ok
     /\ b.i < Len(b.files)
     /\ uploads' = Suspend(Resume(uploads, b),
                           [files |-> b.files, i |-> b.i + 1,
                            allExtractedRecords |-> <<>>])
     /\ uploadedRecords' = AppendStore(uploadedRecords, r.records)
     /\ UNCHANGED <<settings, selectedMonths>>
     /\ Rerender(FALSE, TRUE, FALSE)
     /\ UNCHANGED <<aiInsights, isParsingPdf, uploadStats, timers, alerts, nStarted>>

\* the await of line 88 resolves and another file follows (lines 87-90)
ExtractNext(b) ==
  LET r == Extract(b.files[b.i])
  IN /\ r.ok
     /\ b.i < Len(b.files)
     /\ uploads' = Suspend(Resume(uploads, b),
                           [files |-> b.files, i |-> b.i + 1,
                            allExtractedRecords |-> Accumulate(b.allExtractedRecords, r.records)])
     /\ UNCHANGED <<settings, aiInsights, isAiLoading, isParsingPdf, uploadedRecords,
                    uploadStats, selectedMonths, allProcessedData, availableMonths,
                    filteredData, calls, timers, alerts, nStarted, nIssued>>

\* the await of line 88 resolves for the last file: the loop ends and the
\* handler runs to its end (lines 89-95, 101)
ExtractLast(b) ==
  LET r == Extract(b.files[b.i])
  IN /\ r.ok
     /\ b.i = Len(b.files)
     /\ FinishUpload(b.files, Accumulate(b.allExtractedRecords, r.records))
     /\ uploads' = Resume(uploads, b)
     /\ UNCHANGED nStarted

\* lines 97-102 with the catch block only logging to the console (line 98)
ExtractFail_NoAlert(b) ==
  LET r == Extract(b.files[b.i])
  IN /\ ~r.ok
     /\ isParsingPdf' = FALSE
     /\ uploads' = Resume(uploads, b)
     /\ UNCHANGED <<settings, aiInsights, isAiLoading, uploadedRecords, uploadStats,
                    selectedMonths, allProcessedData, availableMonths, filteredData,
                    calls, timers, alerts, nStarted, nIssued>>

\* the await of line 88 rejects: catch and finally (lines 97-102)
ExtractFail(b) ==
  LET r == Extract(b.files[b.i])
  IN /\ ~r.ok
     /\ alerts' = alerts + 1
     /\ isParsingPdf' = FALSE
     /\ uploads' = Resume(uploads, b)
     /\ UNCHANGED <<settings, aiInsights, isAiLoading, uploadedRecords, uploadStats,
                    selectedMonths, allProcessedData, availableMonths, filteredData,
                    calls, timers, nStarted, nIssued>>

\* line 95: the timeout callback
TimerFire ==
  /\ timers > 0
  /\ timers' = timers - 1
  /\ uploadStats' = <<>>
  /\ UNCHANGED <<settings, aiInsights, isAiLoading, isParsingPdf, uploadedRecords,
                 selectedMonths, allProcessedData, availableMonths, filteredData,
                 uploads, calls, alerts, nStarted, nIssued>>

\* the await of line 74 resolves (lines 75-76)
InsightOk(data) ==
  /\ aiInsights' = getGeminiInsights(data)
  /\ isAiLoading' = FALSE
  /\ calls' = Resume(calls, data)
  /\ UNCHANGED <<settings, isParsingPdf, uploadedRecords, uploadStats, selectedMonths,
                 allProcessedData, availableMonths, filteredData, uploads, timers,
                 alerts, nStarted, nIssued>>

\* the await of line 74 rejects: fetchInsights ends there, its promise is
\* dropped by line 79
InsightFail(data) ==
  /\ calls' = Resume(calls, data)
  /\ UNCHANGED <<settings, aiInsights, isAiLoading, isParsingPdf, uploadedRecords,
                 uploadStats, selectedMonths, allProcessedData, availableMonths,
                 filteredData, uploads, timers, alerts, nStarted, nIssued>>

Next ==
  \/ \E st \in SettingsChoices \ {settings} : SetSettings(st)
  \/ \E sel \in (SUBSET MonthChoices) \ {selectedMonths} : SetSelectedMonths(sel)
  \/ \E files \in FileLists : StartUpload(files)
  \/ \E b \in BagToSet(uploads) : ExtractNext(b)
  \/ \E b \in BagToSet(uploads) : ExtractLast(b)
  \/ \E b \in BagToSet(uploads) : ExtractFail(b)
  \/ TimerFire
  \/ \E data \in BagToSet(calls) : InsightOk(data)
  \/ \E data \in BagToSet(calls) : InsightFail(data)

Spec == Init /\ [][Next]_vars

----------------------------------------------------------------------------
(* What the claims speak of *)

\* the records of the documents of a FileList whose extraction succeeds, in
\* document order
NonFailingRecords(files) ==
  Flatten([j \in 1..Len(files) |->
             IF Extract(files[j]).ok THEN Extract(files[j]).records ELSE <<>>])

\* the step in which the suspended upload b ends in its catch block
BatchFails(b) ==
  /\ ~Extract(b.files[b.i]).ok
  /\ uploads' = Resume(uploads, b)

\* the step in which the suspended upload b ends after its last file
BatchSucceeds(b) ==
  /\ Extract(b.files[b.i]).ok
  /\ b.i = Len(b.files)
  /\ uploads' = Resume(uploads, b)

\* C1: when a batch ends because the extraction of one of its documents
\* failed, the store is the prior store followed by the records of every
\* non-failing document of the batch, and one more error has been reported.
C1_PartialFailureKeepsRecords ==
  [][\A b \in BagToSet(uploads) :
       BatchFails(b) =>
         /\ uploadedRecords' = uploadedRecords \o NonFailingRecords(b.files)
         /\ alerts' = alerts + 1]_vars

\* C2: in every step the store before the step is a prefix of the store
\* after it: nothing is removed, reordered, replaced or deduplicated.
C2_AppendOnly == [][IsPrefix(uploadedRecords, uploadedRecords')]_vars

\* two batches have appended, one after a failed batch or a settings change
\* or an insight response could have interfered: the store holds both blocks
C2_Witness ==
  /\ nStarted = 2
  /\ Len(uploadedRecords) = 5
  /\ settings # DefaultSettings
  /\ aiInsights # <<>>

\* C3: a batch that ends successfully appends, in that one step, the records
\* of all its documents in document order as one block after the store as it
\* then is, whatever other batches are suspended; and the store changes in no
\* other step, so no block is split, interleaved, lost or overwritten.
C3_AtomicAppend ==
  [][/\ \A b \in BagToSet(uploads) :
          BatchSucceeds(b) =>
            uploadedRecords' = uploadedRecords \o NonFailingRecords(b.files)
     /\ uploadedRecords' # uploadedRecords =>
          \E b \in BagToSet(uploads) : BatchSucceeds(b)]_vars

\* a batch is suspended with its first document extracted, while another
\* batch, which ended after this one began (the flag it set is cleared), has
\* appended its block
C3_Witness ==
  /\ BagCardinality(uploads) = 1
  /\ \E b \in BagToSet(uploads) : b.i = 2
  /\ ~isParsingPdf
  /\ uploadedRecords # <<>>

\* C4: allProcessedData is the normalization of the current store under the
\* current settings, element by element, and so is every element served in
\* filteredData.
C4_FreshNormalization ==
  /\ Len(allProcessedData) = Len(uploadedRecords)
  /\ \A i \in 1..Len(uploadedRecords) :
       allProcessedData[i] = processRawData(uploadedRecords[i], settings)
  /\ \A r \in Range(filteredData) :
       \E i \in 1..Len(uploadedRecords) : r = processRawData(uploadedRecords[i], settings)

\* the settings have changed and a record is classified otherwise than under
\* the settings it was first normalized with
C4_Witness ==
  /\ settings # DefaultSettings
  /\ \E i \in 1..Len(allProcessedData) :
       allProcessedData[i].material # processRawData(uploadedRecords[i], DefaultSettings).material

\* The month key of a date string, read off the positions of its dots: with
\* exactly two dots, the text after the second dot (behind "20" when it has
\* two characters) then "-" then the text between the dots, brought to two
\* characters by leading zeros; a list of zero or one key
DotPositions(str) == {i \in 1..Len(Chars(str)) : Chars(str)[i] = "."}

MonthKeyOf(str) ==
  LET c == Chars(str)
      dots == DotPositions(str)
  IN IF Cardinality(dots) # 2 THEN <<>>
     ELSE LET p == CHOOSE i \in dots : \A j \in dots : i <= j
              q == CHOOSE i \in dots : \A j \in dots : j <= i
              mm == SubSeq(c, p + 1, q - 1)
              yy == SubSeq(c, q + 1, Len(c))
              month == CASE Len(mm) = 0 -> <<"0", "0">>
                         [] Len(mm) = 1 -> <<"0">> \o mm
                         [] OTHER -> mm
              year == IF Len(yy) = 2 THEN <<"2", "0">> \o yy ELSE yy
          IN <<year \o <<"-">> \o month>>

HasMonthKey(str) == MonthKeyOf(str) # <<>>

\* the month keys of a list of records
MonthKeysOf(data) ==
  {MonthKeyOf(data[i].datum)[1] : i \in {j \in 1..Len(data) : HasMonthKey(data[j].datum)}}

\* C5: with an empty selection filteredData is allProcessedData; with a
\* non-empty one it is the sub-sequence of allProcessedData of the records
\* whose month key is in the selection, no more and no less.
C5_FilterBySelection ==
  filteredData =
    IF selectedMonths = {} THEN allProcessedData
    ELSE SelectSeq(allProcessedData,
                   LAMBDA r : HasMonthKey(r.datum) /\ MonthKeyOf(r.datum)[1] \in selectedMonths)

\* a non-empty selection keeps some records and drops others
C5_Witness ==
  /\ selectedMonths # {}
  /\ 0 < Len(filteredData)
  /\ Len(filteredData) < Len(allProcessedData)

\* C6: availableMonths holds the month keys of all records of the store,
\* each once and no other, in strictly descending order of their code units,
\* whatever the selection.
C6_AvailableMonths ==
  /\ Range(availableMonths) = MonthKeysOf(uploadedRecords)
  /\ Len(availableMonths) = Cardinality(MonthKeysOf(uploadedRecords))
  /\ \A i \in 1..Len(availableMonths) - 1 :
       StrLess(availableMonths[i + 1], availableMonths[i])

\* three months are available while a selection hides records of the store
C6_Witness ==
  /\ Len(availableMonths) = 3
  /\ selectedMonths # {}
  /\ Len(filteredData) < Len(allProcessedData)

Key_2024_03 == <<"2","0","2","4","-","0","3">>

\* C7: for every record of the dataset both derivations (the one feeding
\* availableMonths and the one inside the filter) yield the key described:
\* none unless there are exactly three dot-separated components, else year,
\* "-", month with the month zero-padded to two characters and a
\* two-character year prefixed by "20"; so "05.03.24" and "05.03.2024" give
\* "2024-03", "bad-date" gives none, and month 13 is taken as it is.
C7_MonthKey ==
  /\ \A r \in Range(allProcessedData) :
       /\ AvailableKey(r.datum) = MonthKeyOf(r.datum)
       /\ \A k \in MonthKeysOf(allProcessedData) \cup MonthChoices :
            FilterKeeps(r, {k}) <=> (MonthKeyOf(r.datum) = <<k>>)
  /\ \A r \in Range(allProcessedData) :
       /\ r.datum = "05.03.24"   => AvailableKey(r.datum) = <<Key_2024_03>>
       /\ r.datum = "05.03.2024" => AvailableKey(r.datum) = <<Key_2024_03>>
       /\ r.datum = "bad-date"   => AvailableKey(r.datum) = <<>>
       /\ r.datum = "01.13.2023" => AvailableKey(r.datum) = <<<<"2","0","2","3","-","1","3">>>>
       /\ r.datum = "1.4.24"     => AvailableKey(r.datum) = <<<<"2","0","2","4","-","0","4">>>>

\* the dataset holds a two-digit year, a four-digit year, a date without
\* dots, a month 13 and a one-digit month, and their keys are listed
C7_Witness ==
  /\ {r.datum : r \in Range(allProcessedData)} =
       {"05.03.24", "05.03.2024", "bad-date", "1.4.24", "01.13.2023"}
  /\ Len(availableMonths) = 3

\* C8: a record of the store whose date has not exactly three dot-separated
\* components is in allProcessedData at its place, no entry of
\* availableMonths stems from it, it is in filteredData when nothing is
\* selected, and filteredData holds no such record when something is.
C8_MalformedDates ==
  /\ Len(allProcessedData) = Len(uploadedRecords)
  /\ \A i \in 1..Len(uploadedRecords) :
       Cardinality(DotPositions(uploadedRecords[i].datum)) # 2 =>
         /\ allProcessedData[i].id = uploadedRecords[i].id
         /\ allProcessedData[i].datum = uploadedRecords[i].datum
         /\ selectedMonths = {} => allProcessedData[i] \in Range(filteredData)
  /\ Range(availableMonths) \subseteq
       {MonthKeyOf(r.datum)[1] :
          r \in {x \in Range(uploadedRecords) : Cardinality(DotPositions(x.datum)) = 2}}
  /\ selectedMonths # {} =>
       \A r \in Range(filteredData) : Cardinality(DotPositions(r.datum)) = 2

\* the store holds a record with a malformed date, and a non-empty selection
\* keeps other records of the store
C8_Witness ==
  /\ \E r \in Range(uploadedRecords) : Cardinality(DotPositions(r.datum)) # 2
  /\ selectedMonths # {}
  /\ filteredData # <<>>

\* C9: when a response arrives and, with it, the response for the current
\* filtered set has arrived (it is this one, or its summary is already
\* held), aiInsights is afterwards the summary of the current filtered set:
\* a response for a superseded set does not replace it.
C9_StaleResponseIgnored ==
  [][\A data \in BagToSet(calls) :
       (InsightOk(data) /\ (data = filteredData
                            \/ aiInsights = getGeminiInsights(filteredData))) =>
         aiInsights' = getGeminiInsights(filteredData)]_vars

\* C10: when the only insight call in flight fails, the loading flag is
\* false afterwards, no summary has been taken over, and the store, the
\* settings and the selection are as they were.
C10_FailureDegrades ==
  [][\A data \in BagToSet(calls) :
       (BagCardinality(calls) = 1 /\ InsightFail(data)) =>
         /\ isAiLoading' = FALSE
         /\ UNCHANGED <<uploadedRecords, settings, selectedMonths>>]_vars

\* C11: every step that changes filteredData, also to the empty list, issues
\* one insight call for the new list; and when no call is in flight after a
\* step, aiInsights is empty or the summary of the current filteredData.
C11_InsightFollowsFilteredData ==
  [][/\ filteredData' # filteredData =>
          /\ nIssued' = nIssued + 1
          /\ calls' = Suspend(calls, filteredData')
     /\ calls' = EmptyBag =>
          \/ aiInsights' = <<>>
          \/ aiInsights' = getGeminiInsights(filteredData')]_vars

\* C12: the step in which a batch ends on a failed extraction shows exactly
\* one more error message, whichever document failed; a batch that holds a
\* document whose extraction fails never ends as a success; and no other
\* step (a batch ending in success, an empty batch, any other event) shows
\* an error message.
C12_OneErrorPerFailedBatch ==
  [][/\ \A b \in BagToSet(uploads) :
          /\ BatchFails(b) => alerts' = alerts + 1
          /\ BatchSucceeds(b) =>
               /\ alerts' = alerts
               /\ \A j \in 1..Len(b.files) : Extract(b.files[j]).ok
     /\ alerts' # alerts =>
          \E b \in BagToSet(uploads) : BatchFails(b) /\ alerts' = alerts + 1]_vars

\* a batch of three documents has ended on its failing second document with
\* one message, and another batch has ended in success without one
C12_Witness ==
  /\ alerts = 1
  /\ nStarted = 2
  /\ uploads = EmptyBag
  /\ uploadedRecords # <<>>

\* C13: after every step each batch in progress waits for exactly one
\* extraction call, that of its document i; every document before i has been
\* extracted, and the batch's accumulated records are the records of the
\* documents 1..i-1 in document order. No more calls are in flight than
\* batches were started and have not failed, and a batch that ends in
\* success appends the records of all its documents in document order.
C13_SequentialExtraction ==
  [][/\ \A b \in BagToSet(uploads') :
          /\ b.i \in 1..Len(b.files)
          /\ \A j \in 1..(b.i - 1) : Extract(b.files[j]).ok
          /\ b.allExtractedRecords =
               Flatten([j \in 1..(b.i - 1) |-> Extract(b.files[j]).records])
     /\ BagCardinality(uploads') + alerts' <= nStarted'
     /\ \A b \in BagToSet(uploads) :
          BatchSucceeds(b) =>
            uploadedRecords' =
              uploadedRecords \o
                Flatten([j \in 1..Len(b.files) |-> Extract(b.files[j]).records])]_vars

\* a batch of two documents has been appended in document order and a batch
\* of three documents waits for its second document with the records of its
\* first
C13_Witness ==
  /\ uploadedRecords = <<Rec1, Rec3, Rec2>>
  /\ \E b \in BagToSet(uploads) :
       /\ Len(b.files) = 3
       /\ b.i = 2
       /\ b.allExtractedRecords = <<Rec1, Rec3>>

\* C14: isParsingPdf is true exactly while at least one batch is in
\* progress, also when batches overlap.
C14_FlagTracksBatches == isParsingPdf <=> (uploads # EmptyBag)

\* the step in which handleFileUpload is called with an empty FileList and
\* runs to its end at once
EmptyBatchRuns ==
  /\ nStarted' = nStarted + 1
  /\ uploads' = uploads

\* C15: a step gives uploadStats a new value other than null only if a batch
\* whose extractions all succeeded ends in it; the step in which such a batch
\* ends is the step of its append and sets files to the number of documents
\* of the batch and count to the number of records the store grew by; the
\* step in which a batch fails leaves uploadStats as it was.
C15_UploadStats ==
  [][/\ (uploadStats' # uploadStats /\ uploadStats' # <<>>) =>
          \/ \E b \in BagToSet(uploads) :
               /\ BatchSucceeds(b)
               /\ \A j \in 1..Len(b.files) : Extract(b.files[j]).ok
          \/ EmptyBatchRuns
     /\ \A b \in BagToSet(uploads) :
          BatchSucceeds(b) =>
            /\ IsPrefix(uploadedRecords, uploadedRecords')
            /\ uploadStats' = <<Len(b.files),
                                Len(uploadedRecords') - Len(uploadedRecords)>>
     /\ EmptyBatchRuns => uploadStats' = <<0, 0>> /\ uploadedRecords' = uploadedRecords
     /\ \A b \in BagToSet(uploads) :
          BatchFails(b) => uploadStats' = uploadStats]_vars

\* a batch of one document has been appended, a batch of two documents has
\* been appended behind it and its statistics are shown, the store being
\* larger than the count
C15_Witness ==
  /\ uploadStats = <<2, 3>>
  /\ uploadedRecords = <<Rec4, Rec5, Rec1, Rec3, Rec2>>
  /\ uploads = EmptyBag

\* C16: in every state the keys of lines 45-49 and the filter of lines 59-66
\* agree: selecting any one available month alone keeps at least one record;
\* under a non-empty selection every record of filteredData has a key, and
\* that key is in availableMonths; and every record of allProcessedData that
\* has a key is kept by the selection of exactly one available month alone,
\* a record without a key by none.
C16_KeyDerivationsAgree ==
  /\ \A m \in Range(availableMonths) :
       ComputeFilteredData(allProcessedData, {m}) # <<>>
  /\ selectedMonths # {} =>
       \A i \in 1..Len(filteredData) :
         /\ AvailableKey(filteredData[i].datum) # <<>>
         /\ AvailableKey(filteredData[i].datum)[1] \in Range(availableMonths)
  /\ \A i \in 1..Len(allProcessedData) :
       LET rec == allProcessedData[i]
           keptBy == {m \in Range(availableMonths) : FilterKeeps(rec, {m})}
       IN IF AvailableKey(rec.datum) # <<>>
          THEN Cardinality(keptBy) = 1
          ELSE keptBy = {}

\* the store holds records of three months, one of them written without
\* leading zeros, and a record without a key; one month is selected and
\* keeps two records
C16_Witness ==
  /\ Len(availableMonths) = 3
  /\ Len(allProcessedData) = 5
  /\ selectedMonths # {}
  /\ Len(filteredData) = 2

\* the fields of a processed record that ProductionRecord (types.ts lines
\* 8-14) holds as extracted, as opposed to those computed from the settings
RawFields == {"id", "datum", "legierung", "gewichtKg"}

\* C17: a step that changes the settings leaves uploadedRecords,
\* selectedMonths and availableMonths as they were and filteredData with the
\* same records in the same order, their extracted fields unchanged; and in
\* every step a month of availableMonths stays in availableMonths and still
\* has a record in allProcessedData, so that selecting it alone keeps at
\* least one record.
C17_MonthsIndependentOfSettings ==
  [][/\ settings' # settings =>
          /\ UNCHANGED <<uploadedRecords, selectedMonths, availableMonths>>
          /\ Len(filteredData') = Len(filteredData)
          /\ \A i \in 1..Len(filteredData) :
               \A f \in RawFields : filteredData'[i][f] = filteredData[i][f]
     /\ \A m \in Range(availableMonths) :
          /\ m \in Range(availableMonths')
          /\ \E i \in 1..Len(allProcessedData') :
               AvailableKey(allProcessedData'[i].datum) = <<m>>
          /\ ComputeFilteredData(allProcessedData', {m}) # <<>>]_vars

\* a month was selected and its two records were summarised under the first
\* settings; the settings have changed since, the same two records are shown
\* with another material for the first, and the month is still available
C17_Witness ==
  /\ settings # DefaultSettings
  /\ selectedMonths # {}
  /\ selectedMonths \subseteq Range(availableMonths)
  /\ Len(filteredData) = 2
  /\ aiInsights # <<>>
  /\ Len(aiInsights[1]) = 2
  /\ aiInsights[1][1].id = filteredData[1].id
  /\ aiInsights[1][1].material = "Cu"
  /\ filteredData[1].material = "Messing"

====
